---- MODULE Spec2Model ----
(***************************************************************************)
(* A model of the Bitstamp exchange client (bitstamp-exc): the response    *)
(* interpreter (_request), the signed POST helper (_post), the paginator   *)
(* (iterateRequestTxs) and the public operations built on them.            *)
(*                                                                         *)
(* One client is modelled together with the exchange it talks to.  A       *)
(* public call is one action (validation, and the first request if any);   *)
(* the arrival of an HTTP response is one action that runs the whole       *)
(* callback chain the response triggers, up to the next request or the     *)
(* caller's callback.                                                      *)
(***************************************************************************)
EXTENDS Integers, Sequences, FiniteSets, TLC

VARIABLES
  settings,           \* which of key, secret, clientId the constructor was given
  now,                \* the clock new Date() reads, in milliseconds
  pc,                 \* "idle" | "waiting" (a request is in flight) | "done" |
                      \* "thrown" (the call threw an exception)
  call,               \* the public operation in progress and its arguments
  history,            \* number of records in the account's transaction history
  earliestDate,       \* iterateRequestTxs: the boundary date (ms since epoch)
  transactionsAll,    \* iterateRequestTxs: the accumulator
  offset,             \* iterateRequestTxs: the running offset
  continueIteration,  \* iterateRequestTxs: the loop flag
  requests,           \* HTTP requests issued by the call, oldest first
  responses,          \* transport results received by the call, oldest first
  result              \* what the caller's callback received

vars == <<settings, now, pc, call, history, earliestDate, transactionsAll, offset,
          continueIteration, requests, responses, result>>

(***************************************************************************)
(* Bounds of the model.                                                    *)
(***************************************************************************)
MaxHist == 102     \* records in the account's history
MaxAmount == 3     \* base amounts of up to MaxAmount half coins either way
MaxPrice == 2      \* limit prices up to MaxPrice
MaxOrderId == 2    \* order ids the exchange hands out
MaxFills == 2      \* fills of one order
MaxErrors == 2     \* messages in an error body's __all__ list
MaxClock == 3      \* milliseconds the clock advances
MaxSigned == 3     \* signed requests one client builds
MaxFillTime == 3   \* timestamps, in seconds, of a known trade's fills

(***************************************************************************)
(* Program constants.                                                      *)
(***************************************************************************)
BITSTAMP_REQUEST_LIMIT == 100
responseLength == 1000
TYPE_DEPOSIT == 0
TYPE_WITHDRAWAL == 1
TYPE_MARKET_TRADE == 2
TYPE_SELL_ORDER == "sell"
TYPE_BUY_ORDER == "buy"
MsPerSecond == 1000

(***************************************************************************)
(* Messages.  A message is a sequence of segments; a segment is either a   *)
(* piece of fixed text (lit) or a run of single characters (chars), the    *)
(* form in which amounts and currency codes appear in exchange messages.   *)
(***************************************************************************)
Lit(s) == [lit |-> s, chars |-> <<>>]
Chars(cs) == [lit |-> "", chars |-> cs]
Text(s) == <<Lit(s)>>

(***************************************************************************)
(* Errors.  kind "Error" is a JavaScript Error object built by             *)
(* constructError, kind "string" a bare string passed as the error, kind   *)
(* "transport" an error raised by the HTTP library, kind "none" no error.  *)
(***************************************************************************)
NoErr == [kind |-> "none", message |-> <<>>, code |-> "", hasCause |-> FALSE, cause |-> <<>>]

EXCHANGE_SERVER_ERROR == "EXCHANGE_SERVER_ERROR"
MODULE_ERROR == "MODULE_ERROR"
INSUFFICIENT_FUNDS == "INSUFFICIENT_FUNDS"

\* if (errorCause) error.cause = errorCause: a missing cause leaves no field
constructError(message, errorCode, hasCause, errorCause) ==
  [kind |-> "Error", message |-> message, code |-> errorCode,
   hasCause |-> hasCause, cause |-> IF hasCause THEN errorCause ELSE <<>>]

StringErr(s) == [kind |-> "string", message |-> Text(s), code |-> "",
                 hasCause |-> FALSE, cause |-> <<>>]

TransportErr == [kind |-> "transport", message |-> Text("ETIMEDOUT"), code |-> "",
                 hasCause |-> FALSE, cause |-> <<>>]

(***************************************************************************)
(* The insufficient-funds patterns.  A message matches when its segments   *)
(* are the pattern's fixed texts with a number (\d+(\.\d+)?) and a         *)
(* currency code ([A-Z]{3}) in the variable places; both patterns are      *)
(* anchored at both ends, so nothing may precede or follow.                *)
(***************************************************************************)
Digits == {"0", "1", "2", "3", "4", "5", "6", "7", "8", "9"}
UpperCase == {"A", "B", "C", "D", "E", "F", "G", "H", "I", "J", "K", "L", "M",
              "N", "O", "P", "Q", "R", "S", "T", "U", "V", "W", "X", "Y", "Z"}

AllDigits(cs) == Len(cs) >= 1 /\ \A i \in 1..Len(cs) : cs[i] \in Digits

\* \d+(\.\d+)?
MatchesNumber(seg) ==
  /\ seg.lit = ""
  /\ \/ AllDigits(seg.chars)
     \/ \E k \in 1..Len(seg.chars) :
          /\ seg.chars[k] = "."
          /\ AllDigits(SubSeq(seg.chars, 1, k - 1))
          /\ AllDigits(SubSeq(seg.chars, k + 1, Len(seg.chars)))

\* [A-Z]{3}
MatchesCurrencyCode(seg) ==
  /\ seg.lit = ""
  /\ Len(seg.chars) = 3
  /\ \A i \in 1..3 : seg.chars[i] \in UpperCase

MatchesText(seg, s) == seg.chars = <<>> /\ seg.lit = s

TextAvailable == " available. Check your account balance for details."

REGEX_PATTERN_BUY_ERROR_INSUFFICIENT_FUNDS(msg) ==
  /\ Len(msg) = 9
  /\ MatchesText(msg[1], "You need ")
  /\ MatchesNumber(msg[2])
  /\ MatchesText(msg[3], " ")
  /\ MatchesCurrencyCode(msg[4])
  /\ MatchesText(msg[5], " to open that order. You have only ")
  /\ MatchesNumber(msg[6])
  /\ MatchesText(msg[7], " ")
  /\ MatchesCurrencyCode(msg[8])
  /\ MatchesText(msg[9], TextAvailable)

REGEX_PATTERN_SELL_ERROR_INSUFFICIENT_FUNDS(msg) ==
  /\ Len(msg) = 5
  /\ MatchesText(msg[1], "You have only ")
  /\ MatchesNumber(msg[2])
  /\ MatchesText(msg[3], " ")
  /\ MatchesCurrencyCode(msg[4])
  /\ MatchesText(msg[5], TextAvailable)

(***************************************************************************)
(* The error field of a parsed body: absent, JSON null, a string, or an    *)
(* object that may hold an __all__ list of messages.                       *)
(***************************************************************************)
ErrAbsent == [t |-> "absent", s |-> <<>>, hasAll |-> FALSE, all |-> <<>>]
ErrNull == [t |-> "null", s |-> <<>>, hasAll |-> FALSE, all |-> <<>>]
ErrString(m) == [t |-> "string", s |-> m, hasAll |-> FALSE, all |-> <<>>]
ErrObject(hasAll, all) == [t |-> "object", s |-> <<>>, hasAll |-> hasAll, all |-> all]

\* JavaScript truthiness of data.error: absent, null and "" are falsy
Truthy(e) == e.t = "object" \/ (e.t = "string" /\ e.s # <<>>)

(***************************************************************************)
(* A transport result: err (the HTTP library's error), resError (the       *)
(* response object's error property) and the body, which is empty,         *)
(* unparseable ("garbage") or the JSON text of an object ("json") with an  *)
(* error field and the rest of its content (payload).                      *)
(***************************************************************************)
Body(kind, error, payload) == [kind |-> kind, error |-> error, payload |-> payload]
Response(err, resError, body) == [err |-> err, resError |-> resError, body |-> body]

Ok(payload) == Response(FALSE, FALSE, Body("json", ErrAbsent, payload))

\* The indices of the messages a pattern accepts
BuyHits(list) == {i \in 1..Len(list) : REGEX_PATTERN_BUY_ERROR_INSUFFICIENT_FUNDS(list[i])}
SellHits(list) == {i \in 1..Len(list) : REGEX_PATTERN_SELL_ERROR_INSUFFICIENT_FUNDS(list[i])}

\* _.find(list, test): the first element the test accepts (hits: the indices
\* it accepts), or undefined
FindFirst(list, hits) ==
  IF hits # {}
    THEN [found |-> TRUE, value |-> list[CHOOSE i \in hits : \A j \in hits : i <= j]]
    ELSE [found |-> FALSE, value |-> <<>>]

\* The two searches in the other order
insufficientFundsErrorMessage_SellFirst(allErrors) ==
  LET buy == FindFirst(allErrors, BuyHits(allErrors))
      sell == FindFirst(allErrors, SellHits(allErrors))
  IN IF sell.found THEN sell ELSE buy

insufficientFundsErrorMessage(allErrors) ==
  LET buy == FindFirst(allErrors, BuyHits(allErrors))
      sell == FindFirst(allErrors, SellHits(allErrors))
  IN IF buy.found THEN buy ELSE sell

\* The branch of requestFunction taken when data.error is truthy
BodyError(error) ==
  LET generic == constructError(
                   Text("There is an error in the body of the response from the exchange service..."),
                   EXCHANGE_SERVER_ERROR, TRUE, error)
  IN IF error.t = "object" /\ error.hasAll
       THEN LET found == insufficientFundsErrorMessage(error.all)
            IN IF found.found
                 THEN constructError(found.value, INSUFFICIENT_FUNDS, FALSE, <<>>)
                 ELSE generic
       ELSE generic

\* requestFunction: what _request hands to its callback, as [err, data]
requestFunction(resp) ==
  IF resp.err \/ resp.body.kind = "empty"
    THEN [err |-> constructError(
                    Text("There is an error in the response from the Bitstamp service..."),
                    EXCHANGE_SERVER_ERROR, resp.err, TransportErr),
          data |-> <<>>]
  ELSE IF resp.resError
    THEN [err |-> constructError(Text("The exchange service responded with an error..."),
                                 EXCHANGE_SERVER_ERROR, TRUE, Text("res.error")),
          data |-> <<>>]
  ELSE IF resp.body.kind = "garbage"
    THEN [err |-> constructError(Text("Could not understand response from exchange server."),
                                 MODULE_ERROR, TRUE, Text("SyntaxError")),
          data |-> <<>>]
  ELSE IF Truthy(resp.body.error)
    THEN [err |-> BodyError(resp.body.error), data |-> <<>>]
  ELSE [err |-> NoErr, data |-> resp.body]

(***************************************************************************)
(* Strings that the code transforms are sequences of characters.           *)
(***************************************************************************)
LowerLetters == <<"a", "b", "c", "d", "e", "f", "g", "h", "i", "j", "k", "l", "m",
                  "n", "o", "p", "q", "r", "s", "t", "u", "v", "w", "x", "y", "z">>
UpperLetters == <<"A", "B", "C", "D", "E", "F", "G", "H", "I", "J", "K", "L", "M",
                  "N", "O", "P", "Q", "R", "S", "T", "U", "V", "W", "X", "Y", "Z">>

IndexOf(letters, c) == CHOOSE i \in 1..Len(letters) : letters[i] = c

toUpperCase(str) ==
  [i \in 1..Len(str) |->
     IF \E k \in 1..Len(LowerLetters) : LowerLetters[k] = str[i]
       THEN UpperLetters[IndexOf(LowerLetters, str[i])] ELSE str[i]]

toLowerCase(str) ==
  [i \in 1..Len(str) |->
     IF \E k \in 1..Len(UpperLetters) : UpperLetters[k] = str[i]
       THEN LowerLetters[IndexOf(UpperLetters, str[i])] ELSE str[i]]

BTC == <<"B", "T", "C">>
USD == <<"U", "S", "D">>

(***************************************************************************)
(* JavaScript values given as amounts and prices: undefined, a string, or  *)
(* a number (an integer; NaN and the infinities are not among the inputs). *)
(***************************************************************************)
JsUndefined == [t |-> "undefined", n |-> 0]
JsString == [t |-> "string", n |-> 0]
JsNumber(n) == [t |-> "number", n |-> n]

TypeofNumber(v) == v.t = "number"
IsZero(v) == v.t = "number" /\ v.n = 0
IsNegative(v) == v.t = "number" /\ v.n < 0

(***************************************************************************)
(* Currency (lib/currency.js): amounts in main units are decimals, held as *)
(* whole units and a fraction counted in smallest subunits.                *)
(***************************************************************************)
SubunitsPerBTC == 100000000
SubunitsPerUSD == 100

SubunitsPer(currency) == IF currency = BTC THEN SubunitsPerBTC ELSE SubunitsPerUSD

Decimal(whole, frac) == [whole |-> whole, frac |-> frac]

toSmallestSubunit(amount, currency) ==
  amount.whole * SubunitsPer(currency) + amount.frac

fromSmallestSubunit(n, currency) ==
  Decimal(n \div SubunitsPer(currency), n % SubunitsPer(currency))

\* A number in a response body is a string; parseFloat reads it
NumString(d) == [str |-> d]
parseFloat(s) == s.str

RECURSIVE Sum(_)
\* _.sum
Sum(xs) == IF xs = <<>> THEN 0 ELSE Head(xs) + Sum(Tail(xs))

(***************************************************************************)
(* The exchange.  The account's history of n records is served newest      *)
(* first: record i of n carries the i-th largest id and datetime (in       *)
(* seconds), strictly descending, and a type that cycles through deposit,  *)
(* withdrawal and market trade.  A page is the slice the request's offset  *)
(* and limit select.  Amounts are decimal strings: every second record     *)
(* moves no bitcoin.                                                       *)
(***************************************************************************)
RawTransaction(k) ==
  [id |-> k, datetime |-> k, type |-> k % 3, order_id |-> k,
   btc |-> NumString(Decimal(k % 2, 0)),
   usd |-> NumString(Decimal(k, 50)),
   fee |-> NumString(Decimal(0, 25))]

History(n) == [i \in 1..n |-> RawTransaction(n - i + 1)]

Min(a, b) == IF a <= b THEN a ELSE b

ExchangePage(n, off, limit) == SubSeq(History(n), off + 1, Min(off + limit, n))

\* Ways a request fails or is answered with an error body
SellFundsMessage ==
  <<Lit("You have only "), Chars(<<"0", ".", "0", "0">>), Lit(" "),
    Chars(<<"B", "T", "C">>), Lit(TextAvailable)>>

FailureResponses(payload) ==
  { Response(TRUE, FALSE, Body("empty", ErrAbsent, payload)),
    Response(FALSE, FALSE, Body("empty", ErrAbsent, payload)),
    Response(FALSE, TRUE, Body("json", ErrAbsent, payload)),
    Response(FALSE, FALSE, Body("garbage", ErrAbsent, payload)),
    Response(FALSE, FALSE, Body("json", ErrString(Text("Invalid nonce")), payload)),
    Response(FALSE, FALSE, Body("json", ErrObject(TRUE, <<SellFundsMessage>>), payload)) }

(***************************************************************************)
(* _post: refuses without key, secret and client id; otherwise sends a     *)
(* POST request carrying the caller's params.  The key, signature and      *)
(* nonce _post adds to the params are modelled with SignedPost.            *)
(***************************************************************************)
HasCredentials == settings.key /\ settings.secret /\ settings.clientId

MissingCredentials ==
  StringErr("Must provide key, secret and client ID to make this API request.")

PostRequest(action, params) == [method |-> "POST", action |-> action, params |-> params]
GetRequest(action) == [method |-> "GET", action |-> action, params |-> <<>>]

(***************************************************************************)
(* iterateRequestTxs.                                                      *)
(***************************************************************************)
\* new Date(datetime): seconds to milliseconds since the epoch
DateOf(datetime) == datetime * MsPerSecond

\* The test inside res.every: the transaction is older than the boundary
IsOlder(date, tx) == date > DateOf(tx.datetime)

\* res.every stops at the first transaction the test rejects: its index, or
\* Len(res) + 1 when every transaction is accepted
FirstOlder(res, date) ==
  IF \E i \in 1..Len(res) : IsOlder(date, res[i])
    THEN CHOOSE i \in 1..Len(res) :
           IsOlder(date, res[i]) /\ \A j \in 1..(i - 1) : ~IsOlder(date, res[j])
    ELSE Len(res) + 1

\* The step of the running offset after a page
NextOffset(off) == off + responseLength

\* The callback without the short-page check
postCallback_NoShortPageCheck(err, res, acc, off, cont, date) ==
  IF err.kind # "none"
    THEN [transactionsAll |-> acc, offset |-> off, continueIteration |-> FALSE, err |-> err]
    ELSE LET k == FirstOlder(res, date)
         IN [transactionsAll |-> acc \o SubSeq(res, 1, k - 1),
             offset |-> NextOffset(off),
             continueIteration |-> IF k <= Len(res) THEN FALSE ELSE cont,
             err |-> err]

\* The callback of self._post in post(): the locals after it ran and the
\* error it hands to asyncCallback
postCallback(err, res, acc, off, cont, date) ==
  IF err.kind # "none"
    THEN [transactionsAll |-> acc, offset |-> off, continueIteration |-> FALSE, err |-> err]
    ELSE LET k == FirstOlder(res, date)
         IN [transactionsAll |-> acc \o SubSeq(res, 1, k - 1),
             offset |-> NextOffset(off),
             continueIteration |-> IF k <= Len(res) \/ Len(res) < BITSTAMP_REQUEST_LIMIT
                                     THEN FALSE ELSE cont,
             err |-> err]

\* done() without its error check: the accumulated transactions are handed on
done_IgnoresError(err, deposits) ==
  [err |-> NoErr, value |-> deposits]

\* done(): what iterateRequestTxs hands to its callback, as [err, value]
done(err, deposits) ==
  IF err.kind # "none"
    THEN [err |-> constructError(Text("Trades could not be listed."), MODULE_ERROR, TRUE, err),
          value |-> <<>>]
    ELSE [err |-> NoErr, value |-> deposits]

PageRequest(off) ==
  PostRequest("user_transactions",
              [limit |-> BITSTAMP_REQUEST_LIMIT, offset |-> off, sort |-> "desc"])

(***************************************************************************)
(* listTransactions.                                                       *)
(***************************************************************************)
IsDepositOrWithdrawal(tx) == tx.type = TYPE_DEPOSIT \/ tx.type = TYPE_WITHDRAWAL

constructTransactionObject(currentTx) ==
  LET inUsd == parseFloat(currentTx.btc) = Decimal(0, 0)
  IN [externalId |-> [string |-> currentTx.id],
      timestamp |-> [iso |-> DateOf(currentTx.datetime)],
      state |-> "completed",
      amount |-> IF inUsd THEN toSmallestSubunit(parseFloat(currentTx.usd), USD)
                          ELSE toSmallestSubunit(parseFloat(currentTx.btc), BTC),
      currency |-> IF inUsd THEN USD ELSE BTC,
      type |-> IF currentTx.type = TYPE_DEPOSIT THEN "deposit" ELSE "withdrawal",
      raw |-> currentTx]

\* The callback listTransactions gives to iterateRequestTxs
listTransactionsCallback(r) ==
  IF r.err.kind # "none"
    THEN [err |-> r.err, value |-> <<>>]
    ELSE LET kept == SelectSeq(r.value, IsDepositOrWithdrawal)
         IN [err |-> NoErr,
             value |-> [i \in 1..Len(kept) |-> constructTransactionObject(kept[i])]]

NoLatest == [given |-> FALSE, datetime |-> 0]
Latest(d) == [given |-> TRUE, datetime |-> d]

(***************************************************************************)
(* listTrades: what the promise of the listing settles with.               *)
(***************************************************************************)
IsMarketTrade(tx) == tx.type = TYPE_MARKET_TRADE

\* One element of transactions.map in listTrades
constructTradeObject(tx) ==
  [externalId |-> [string |-> tx.order_id],
   type |-> "limit",
   state |-> "closed",
   baseCurrency |-> BTC,
   baseAmount |-> toSmallestSubunit(parseFloat(tx.btc), BTC),
   quoteCurrency |-> USD,
   quoteAmount |-> toSmallestSubunit(parseFloat(tx.usd), USD),
   feeCurrency |-> USD,
   feeAmount |-> toSmallestSubunit(parseFloat(tx.fee), USD),
   tradeTime |-> DateOf(tx.datetime),
   raw |-> tx]

\* promisify(iterateRequestTxs)(...).then(...): rejected with the listing's
\* error, or resolved with the market trades
listTradesThen(r) ==
  IF r.err.kind # "none"
    THEN [err |-> r.err, value |-> <<>>]
    ELSE LET kept == SelectSeq(r.value, IsMarketTrade)
         IN [err |-> NoErr,
             value |-> [i \in 1..Len(kept) |-> constructTradeObject(kept[i])]]

\* What the listing operation name does with the paginator's outcome
ListingCallback(name, r) ==
  IF name = "listTrades" THEN listTradesThen(r) ELSE listTransactionsCallback(r)

\* The start of async.doWhilst(post, check, done): post() runs once before
\* check() is consulted.  history is the account's history as the exchange
\* holds it while the listing runs.
IterateStart(name, date) ==
  /\ earliestDate' = date
  /\ transactionsAll' = <<>>
  /\ offset' = 0
  /\ responses' = <<>>
  /\ IF HasCredentials
       THEN /\ \E n \in 0..MaxHist : history' = n
            /\ requests' = <<PageRequest(0)>>
            /\ continueIteration' = TRUE
            /\ pc' = "waiting"
            /\ UNCHANGED result
       ELSE /\ continueIteration' = FALSE
            /\ pc' = "done"
            /\ result' = ListingCallback(name, done(MissingCredentials, <<>>))
            /\ UNCHANGED <<history, requests>>

ListTransactions ==
  /\ pc = "idle"
  /\ \E latestTransaction \in {NoLatest} \cup {Latest(d) : d \in 1..(MaxHist + 1)} :
       /\ call' = [name |-> "listTransactions", latest |-> latestTransaction]
       /\ IterateStart("listTransactions",
                       IF latestTransaction.given
                         THEN DateOf(latestTransaction.datetime) ELSE 0)
  /\ UNCHANGED <<settings, now>>

\* A page request is answered: the callback in post(), then async.doWhilst's
\* step: done(err) on an error, otherwise check() and either the next post()
\* or done(null, transactionsAll)
ListingResponse ==
  /\ pc = "waiting"
  /\ call.name \in {"listTransactions", "listTrades"}
  /\ LET req == requests[Len(requests)]
     IN \E resp \in FailureResponses(<<>>)
                    \cup {Ok(ExchangePage(history, req.params.offset, req.params.limit))} :
          LET r == requestFunction(resp)
              after == postCallback(r.err, IF r.err.kind = "none" THEN r.data.payload ELSE <<>>,
                                    transactionsAll, offset, continueIteration, earliestDate)
          IN /\ responses' = Append(responses, resp)
             /\ transactionsAll' = after.transactionsAll
             /\ offset' = after.offset
             /\ continueIteration' = after.continueIteration
             /\ IF after.err.kind = "none" /\ after.continueIteration
                  THEN /\ requests' = Append(requests, PageRequest(after.offset))
                       /\ UNCHANGED <<pc, result>>
                  ELSE /\ pc' = "done"
                       /\ result' = ListingCallback(call.name,
                                                     done(after.err, after.transactionsAll))
                       /\ UNCHANGED requests
  /\ UNCHANGED <<settings, now, call, history, earliestDate>>

(***************************************************************************)
(* listTrades.  The latest known trade is absent, or a trade getTrade      *)
(* returned (its raw record lists the order's fills), or a trade an        *)
(* earlier listing returned (its raw record is one transaction).           *)
(***************************************************************************)
FillTimes == UNION {[1..n -> [datetime : 1..MaxFillTime]] : n \in 0..MaxFills}

NoLatestTrade ==
  [given |-> FALSE, raw |-> [hasTransactions |-> FALSE, transactions |-> <<>>, datetime |-> 0]]

LatestTrades ==
  {NoLatestTrade}
    \cup {[given |-> TRUE,
           raw |-> [hasTransactions |-> TRUE, transactions |-> fills, datetime |-> 0]] :
            fills \in FillTimes}
    \cup {[given |-> TRUE,
           raw |-> [hasTransactions |-> FALSE, transactions |-> <<>>, datetime |-> d]] :
            d \in 1..MaxFillTime}

\* The boundary listTrades derives; raw.transactions[0] is the first fill
latestTxDate(latestTrade) ==
  IF ~latestTrade.given
    THEN 0
    ELSE IF latestTrade.raw.hasTransactions
           THEN DateOf(latestTrade.raw.transactions[1].datetime)
           ELSE DateOf(latestTrade.raw.datetime)

\* An empty list of fills is truthy, and reading the datetime of its first
\* element throws a TypeError out of listTrades
ListTrades ==
  /\ pc = "idle"
  /\ \E latestTrade \in LatestTrades :
       /\ call' = [name |-> "listTrades", latest |-> latestTrade]
       /\ IF latestTrade.raw.hasTransactions /\ latestTrade.raw.transactions = <<>>
            THEN /\ pc' = "thrown"
                 /\ UNCHANGED <<history, earliestDate, transactionsAll, offset,
                                continueIteration, requests, responses, result>>
            ELSE IterateStart("listTrades", latestTxDate(latestTrade))
  /\ UNCHANGED <<settings, now>>

(***************************************************************************)
(* Inputs of the public operations.                                        *)
(***************************************************************************)
CurrencyCodes ==
  { <<"b", "t", "c">>, <<"B", "T", "C">>, <<"B", "t", "c">>,
    <<"u", "s", "d">>, <<"U", "S", "D">>, <<"E", "U", "R">> }

\* Signed base amounts in smallest subunits: multiples of half a coin, and
\* one subunit either way
AmountValues ==
  {JsUndefined, JsString, JsNumber(-1), JsNumber(1)}
    \cup {JsNumber(k * (SubunitsPerBTC \div 2)) : k \in (-MaxAmount)..MaxAmount}

PriceValues ==
  {JsUndefined, JsString} \cup {JsNumber(p) : p \in (-1)..MaxPrice}

(***************************************************************************)
(* Steps shared by the operations: handing a result to the caller's        *)
(* callback, and sending a request through _get or _post.                  *)
(***************************************************************************)
Failure(err) == [err |-> err, value |-> <<>>]
Success(value) == [err |-> NoErr, value |-> value]

Deliver(r) ==
  /\ pc' = "done"
  /\ result' = r
  /\ UNCHANGED requests

\* _get: no credentials are needed
Get(action) ==
  /\ requests' = Append(requests, GetRequest(action))
  /\ pc' = "waiting"
  /\ UNCHANGED result

\* _post, called by an operation that passes the error on to its caller
Post(action, params) ==
  IF HasCredentials
    THEN /\ requests' = Append(requests, PostRequest(action, params))
         /\ pc' = "waiting"
         /\ UNCHANGED result
    ELSE Deliver(Failure(MissingCredentials))

Paginator == <<history, earliestDate, transactionsAll, offset, continueIteration>>

(***************************************************************************)
(* getTicker and getOrderBook.                                             *)
(***************************************************************************)
\* The test with the quote currency forgotten
PairSupported_BaseOnly(baseCurrency, quoteCurrency) ==
  ~(toUpperCase(baseCurrency) # BTC)

\* The test both operations and placeTrade make after normalizing the codes
PairSupported(baseCurrency, quoteCurrency) ==
  ~(toUpperCase(baseCurrency) # BTC \/ toUpperCase(quoteCurrency) # USD)

UnsupportedPair(message) == constructError(Text(message), MODULE_ERROR, FALSE, <<>>)

TickerPayloads ==
  { [bid |-> NumString(Decimal(649, 89)), ask |-> NumString(Decimal(650, 12)),
     last |-> NumString(Decimal(649, 97)), high |-> NumString(Decimal(652, 55)),
     low |-> NumString(Decimal(634, 98)), vwap |-> NumString(Decimal(647, 37)),
     volume |-> NumString(Decimal(12, 34567890))] }

GetTicker ==
  /\ pc = "idle"
  /\ \E baseCurrency \in CurrencyCodes, quoteCurrency \in CurrencyCodes :
       /\ call' = [name |-> "getTicker", baseCurrency |-> baseCurrency,
                   quoteCurrency |-> quoteCurrency]
       /\ IF PairSupported(baseCurrency, quoteCurrency)
            THEN Get("ticker")
            ELSE Deliver(Failure(UnsupportedPair(
                   "Bitstamp only supports BTC and USD as base and quote currencies, respectively.")))
  /\ responses' = <<>>
  /\ UNCHANGED <<settings, now, Paginator>>

tickerCallback(r, baseCurrency, quoteCurrency) ==
  IF r.err.kind # "none"
    THEN Failure(r.err)
    ELSE LET res == r.data.payload
         IN Success([baseCurrency |-> baseCurrency,
                     quoteCurrency |-> quoteCurrency,
                     bid |-> parseFloat(res.bid),
                     ask |-> parseFloat(res.ask),
                     lastPrice |-> parseFloat(res.last),
                     high24Hours |-> parseFloat(res.high),
                     low24Hours |-> parseFloat(res.low),
                     vwap24Hours |-> parseFloat(res.vwap),
                     volume24Hours |-> toSmallestSubunit(parseFloat(res.volume), baseCurrency)])

TickerResponse ==
  /\ pc = "waiting"
  /\ call.name = "getTicker"
  /\ \E payload \in TickerPayloads :
       \E resp \in FailureResponses(payload) \cup {Ok(payload)} :
         /\ responses' = Append(responses, resp)
         /\ Deliver(tickerCallback(requestFunction(resp), toUpperCase(call.baseCurrency),
                                   toUpperCase(call.quoteCurrency)))
  /\ UNCHANGED <<settings, now, call, Paginator>>

RawEntry(price, amount) == <<NumString(price), NumString(amount)>>

OrderBookPayloads ==
  { [bids |-> <<>>, asks |-> <<>>],
    [bids |-> <<RawEntry(Decimal(450, 31), Decimal(0, 33445566))>>,
     asks |-> <<RawEntry(Decimal(450, 65), Decimal(0, 44556677)),
                RawEntry(Decimal(451, 0), Decimal(1, 0))>>] }

GetOrderBook ==
  /\ pc = "idle"
  /\ \E baseCurrency \in CurrencyCodes, quoteCurrency \in CurrencyCodes :
       /\ call' = [name |-> "getOrderBook", baseCurrency |-> baseCurrency,
                   quoteCurrency |-> quoteCurrency]
       /\ IF PairSupported(baseCurrency, quoteCurrency)
            THEN Get("order_book")
            ELSE Deliver(Failure(UnsupportedPair(
                   "Bitstamp only supports BTC and USD as base and quote currencies, respectively.")))
  /\ responses' = <<>>
  /\ UNCHANGED <<settings, now, Paginator>>

convertRawEntry(entry) ==
  [price |-> parseFloat(entry[1]),
   baseAmount |-> toSmallestSubunit(parseFloat(entry[2]), BTC)]

orderBookCallback(r, baseCurrency, quoteCurrency) ==
  IF r.err.kind # "none"
    THEN Failure(r.err)
    ELSE LET res == r.data.payload
         IN Success([baseCurrency |-> baseCurrency,
                     quoteCurrency |-> quoteCurrency,
                     bids |-> [i \in 1..Len(res.bids) |-> convertRawEntry(res.bids[i])],
                     asks |-> [i \in 1..Len(res.asks) |-> convertRawEntry(res.asks[i])]])

OrderBookResponse ==
  /\ pc = "waiting"
  /\ call.name = "getOrderBook"
  /\ \E payload \in OrderBookPayloads :
       \E resp \in FailureResponses(payload) \cup {Ok(payload)} :
         /\ responses' = Append(responses, resp)
         /\ Deliver(orderBookCallback(requestFunction(resp), toUpperCase(call.baseCurrency),
                                      toUpperCase(call.quoteCurrency)))
  /\ UNCHANGED <<settings, now, call, Paginator>>

(***************************************************************************)
(* getBalance.                                                             *)
(***************************************************************************)
BalancePayloads ==
  { [usd_available |-> Decimal(10, 50), btc_available |-> Decimal(0, 50000000),
     usd_balance |-> Decimal(12, 0), btc_balance |-> Decimal(1, 0)] }

GetBalance ==
  /\ pc = "idle"
  /\ call' = [name |-> "getBalance"]
  /\ Post("balance", <<>>)
  /\ responses' = <<>>
  /\ UNCHANGED <<settings, now, Paginator>>

balanceCallback(r) ==
  IF r.err.kind # "none"
    THEN Failure(r.err)
    ELSE LET res == r.data.payload
         IN Success([available |-> [USD |-> toSmallestSubunit(res.usd_available, USD),
                                    BTC |-> toSmallestSubunit(res.btc_available, BTC)],
                     total |-> [USD |-> toSmallestSubunit(res.usd_balance, USD),
                                BTC |-> toSmallestSubunit(res.btc_balance, BTC)]])

BalanceResponse ==
  /\ pc = "waiting"
  /\ call.name = "getBalance"
  /\ \E payload \in BalancePayloads :
       \E resp \in FailureResponses(payload) \cup {Ok(payload)} :
         /\ responses' = Append(responses, resp)
         /\ Deliver(balanceCallback(requestFunction(resp)))
  /\ UNCHANGED <<settings, now, call, Paginator>>

(***************************************************************************)
(* placeTrade.                                                             *)
(***************************************************************************)
\* The three checks before the request, in the code's order: the error handed
\* to the callback, or NoErr when the arguments are accepted
placeTradeValidation(baseAmount, limitPrice, baseCurrency, quoteCurrency) ==
  IF ~PairSupported(baseCurrency, quoteCurrency)
    THEN UnsupportedPair("Base and Quote currencies should be BTC and USD, respectively")
  ELSE IF baseAmount.t = "undefined" \/ ~TypeofNumber(baseAmount) \/ IsZero(baseAmount)
    THEN constructError(Text("The base amount must be a number."), MODULE_ERROR, FALSE, <<>>)
  ELSE IF limitPrice.t = "undefined" \/ ~TypeofNumber(limitPrice) \/ IsNegative(limitPrice)
    THEN constructError(Text("The limit price must be a positive number."),
                        MODULE_ERROR, FALSE, <<>>)
  ELSE NoErr

placeTradeOrderType(baseAmount) ==
  IF IsNegative(baseAmount) THEN TYPE_SELL_ORDER ELSE TYPE_BUY_ORDER

\* The sell side sent with the signed amount
amountMainUnit_Signed(baseAmount, orderType) ==
  fromSmallestSubunit(baseAmount.n, BTC)

\* amountSubUnit, then its conversion to main units
amountMainUnit(baseAmount, orderType) ==
  fromSmallestSubunit(IF orderType = TYPE_SELL_ORDER
                        THEN baseAmount.n * (-1) ELSE baseAmount.n, BTC)

OrderIds == 1..MaxOrderId

PlaceTrade ==
  /\ pc = "idle"
  /\ \E baseAmount \in AmountValues, limitPrice \in PriceValues,
        baseCurrency \in CurrencyCodes, quoteCurrency \in CurrencyCodes :
       LET invalid == placeTradeValidation(baseAmount, limitPrice, baseCurrency, quoteCurrency)
           orderType == placeTradeOrderType(baseAmount)
       IN /\ call' = [name |-> "placeTrade", baseAmount |-> baseAmount,
                      limitPrice |-> limitPrice, baseCurrency |-> baseCurrency,
                      quoteCurrency |-> quoteCurrency]
          /\ IF invalid.kind # "none"
               THEN Deliver(Failure(invalid))
               ELSE Post(orderType, [amount |-> amountMainUnit(baseAmount, orderType),
                                     price |-> limitPrice])
  /\ responses' = <<>>
  /\ UNCHANGED <<settings, now, Paginator>>

placeTradeCallback(r, baseAmount, limitPrice, orderType) ==
  IF r.err.kind # "none"
    THEN Failure(r.err)
    ELSE LET res == r.data.payload
         IN Success([externalId |-> [string |-> res.id],
                     type |-> "limit",
                     state |-> "open",
                     baseAmount |-> baseAmount,
                     baseCurrency |-> "BTC",
                     quoteCurrency |-> "USD",
                     limitPrice |-> limitPrice,
                     raw |-> [id |-> res.id, orderType |-> orderType]])

PlaceTradeResponse ==
  /\ pc = "waiting"
  /\ call.name = "placeTrade"
  /\ \E id \in OrderIds :
       \E resp \in FailureResponses([id |-> id]) \cup {Ok([id |-> id])} :
         /\ responses' = Append(responses, resp)
         /\ Deliver(placeTradeCallback(requestFunction(resp), call.baseAmount, call.limitPrice,
                                       placeTradeOrderType(call.baseAmount)))
  /\ UNCHANGED <<settings, now, call, Paginator>>

(***************************************************************************)
(* getTrade.                                                               *)
(***************************************************************************)
\* Amounts a fill reports, in main units
FillBtc == {Decimal(0, 0), Decimal(0, SubunitsPerBTC \div 2), Decimal(1, 0)}
FillUsd == {Decimal(0, 0), Decimal(372, 63)}
FillFee == {Decimal(0, 0), Decimal(0, 11)}

Fills == [btc : FillBtc, usd : FillUsd, fee : FillFee]

FillLists == UNION {[1..n -> Fills] : n \in 0..MaxFills}

Finished == <<"F", "i", "n", "i", "s", "h", "e", "d">>
Statuses == {Finished, toLowerCase(Finished), <<"O", "p", "e", "n">>}

TradeRefs ==
  {[given |-> FALSE, raw |-> [id |-> 0, orderType |-> ""]]}
    \cup {[given |-> TRUE, raw |-> [id |-> id, orderType |-> t]] :
            id \in OrderIds, t \in {TYPE_SELL_ORDER, TYPE_BUY_ORDER, "limit"}}

getTradeValidation(trade) ==
  IF ~trade.given
    THEN constructError(Text("Trade object is a required parameter."), MODULE_ERROR, FALSE, <<>>)
  ELSE IF trade.raw.orderType # TYPE_SELL_ORDER /\ trade.raw.orderType # TYPE_BUY_ORDER
    THEN constructError(
           Text("Trade object must have a raw orderType parameter with value either 'sell' or 'buy'."),
           MODULE_ERROR, FALSE, <<>>)
  ELSE NoErr

GetTrade ==
  /\ pc = "idle"
  /\ \E trade \in TradeRefs :
       LET invalid == getTradeValidation(trade)
       IN /\ call' = [name |-> "getTrade", trade |-> trade]
          /\ IF invalid.kind # "none"
               THEN Deliver(Failure(invalid))
               ELSE Post("order_status", [id |-> trade.raw.id])
  /\ responses' = <<>>
  /\ UNCHANGED <<settings, now, Paginator>>

\* The quote amounts negated on the wrong side
quoteAmounts_NegatesOnSell(transactions, orderType) ==
  [i \in 1..Len(transactions) |->
     LET quoteAmount == toSmallestSubunit(transactions[i].usd, USD)
     IN IF orderType = TYPE_SELL_ORDER THEN -quoteAmount ELSE quoteAmount]

\* The three maps over res.transactions
baseAmounts(transactions, orderType) ==
  [i \in 1..Len(transactions) |->
     LET baseAmount == toSmallestSubunit(transactions[i].btc, BTC)
     IN IF orderType = TYPE_SELL_ORDER THEN -baseAmount ELSE baseAmount]

quoteAmounts(transactions, orderType) ==
  [i \in 1..Len(transactions) |->
     LET quoteAmount == toSmallestSubunit(transactions[i].usd, USD)
     IN IF orderType = TYPE_BUY_ORDER THEN -quoteAmount ELSE quoteAmount]

feeAmounts(transactions) ==
  [i \in 1..Len(transactions) |-> toSmallestSubunit(transactions[i].fee, USD)]

getTradeCallback(r, trade) ==
  IF r.err.kind # "none"
    THEN Failure(r.err)
    ELSE LET res == r.data.payload
         IN Success([externalId |-> [string |-> trade.raw.id],
                     type |-> "limit",
                     state |-> IF toLowerCase(res.status) = toLowerCase(Finished)
                                 THEN "closed" ELSE "open",
                     baseAmount |-> Sum(baseAmounts(res.transactions, trade.raw.orderType)),
                     quoteAmount |-> Sum(quoteAmounts(res.transactions, trade.raw.orderType)),
                     baseCurrency |-> "BTC",
                     quoteCurrency |-> "USD",
                     feeAmount |-> Sum(feeAmounts(res.transactions)),
                     feeCurrency |-> "USD",
                     raw |-> [status |-> res.status, transactions |-> res.transactions,
                              id |-> trade.raw.id]])

TradeResponse ==
  /\ pc = "waiting"
  /\ call.name = "getTrade"
  /\ \E status \in Statuses, transactions \in FillLists :
       LET payload == [status |-> status, transactions |-> transactions]
       IN \E resp \in FailureResponses(payload) \cup {Ok(payload)} :
            /\ responses' = Append(responses, resp)
            /\ Deliver(getTradeCallback(requestFunction(resp), call.trade))
  /\ UNCHANGED <<settings, now, call, Paginator>>

NoResult == [err |-> NoErr, value |-> <<>>]

Init ==
  /\ settings \in [key : BOOLEAN, secret : BOOLEAN, clientId : BOOLEAN]
  /\ now = 0
  /\ pc = "idle"
  /\ call = [name |-> "none"]
  /\ history = 0
  /\ earliestDate = 0
  /\ transactionsAll = <<>>
  /\ offset = 0
  /\ continueIteration = FALSE
  /\ requests = <<>>
  /\ responses = <<>>
  /\ result = NoResult

Next ==
  \/ ListTransactions
  \/ ListTrades
  \/ ListingResponse
  \/ GetTicker
  \/ TickerResponse
  \/ GetOrderBook
  \/ OrderBookResponse
  \/ GetBalance
  \/ BalanceResponse
  \/ PlaceTrade
  \/ PlaceTradeResponse
  \/ GetTrade
  \/ TradeResponse

Spec == Init /\ [][Next]_vars

(***************************************************************************)
(* _request on its own: a request of any method is handed to _request, and *)
(* requestFunction interprets whatever the transport returns.              *)
(***************************************************************************)
BuyFundsMessage ==
  <<Lit("You need "), Chars(<<"1", "2", ".", "5">>), Lit(" "), Chars(<<"U", "S", "D">>),
    Lit(" to open that order. You have only "), Chars(<<"3">>), Lit(" "),
    Chars(<<"U", "S", "D">>), Lit(TextAvailable)>>

SampleMessages ==
  { BuyFundsMessage,
    SellFundsMessage,
    \* a second sell-side message, with another amount
    <<Lit("You have only "), Chars(<<"7">>), Lit(" "), Chars(<<"U", "S", "D">>),
      Lit(TextAvailable)>>,
    \* the currency code in lower case
    <<Lit("You have only "), Chars(<<"0", ".", "5">>), Lit(" "), Chars(<<"b", "t", "c">>),
      Lit(TextAvailable)>>,
    \* a number that ends in its decimal point
    <<Lit("You have only "), Chars(<<"1", ".">>), Lit(" "), Chars(<<"B", "T", "C">>),
      Lit(TextAvailable)>>,
    \* text after the sell-side message
    <<Lit("You have only "), Chars(<<"1">>), Lit(" "), Chars(<<"B", "T", "C">>),
      Lit(TextAvailable), Lit(" Please try again.")>>,
    Text("Invalid nonce") }

MessageLists == UNION {[1..n -> SampleMessages] : n \in 0..MaxErrors}

ErrorValues ==
  {ErrAbsent, ErrNull, ErrString(<<>>), ErrObject(FALSE, <<>>)}
    \cup {ErrString(m) : m \in SampleMessages}
    \cup {ErrObject(TRUE, all) : all \in MessageLists}

InterpreterInputs ==
  {Response(err, resError, body) :
     err \in BOOLEAN, resError \in BOOLEAN,
     body \in {Body("empty", ErrAbsent, [id |-> 1]), Body("garbage", ErrAbsent, [id |-> 1])}
                \cup {Body("json", e, [id |-> 1]) : e \in ErrorValues}}

InitRequest ==
  /\ settings = [key |-> TRUE, secret |-> TRUE, clientId |-> TRUE]
  /\ now = 0
  /\ pc = "idle"
  /\ call \in {[name |-> "_request", method |-> m] : m \in {"GET", "POST", "PUT"}}
  /\ history = 0
  /\ earliestDate = 0
  /\ transactionsAll = <<>>
  /\ offset = 0
  /\ continueIteration = FALSE
  /\ requests = <<>>
  /\ responses = <<>>
  /\ result = NoResult

\* _request: request.get or request.post, or the error for another method
Request ==
  /\ pc = "idle"
  /\ call.name = "_request"
  /\ IF call.method \in {"GET", "POST"}
       THEN /\ requests' = <<[method |-> call.method, action |-> "", params |-> <<>>]>>
            /\ pc' = "waiting"
            /\ UNCHANGED result
       ELSE Deliver(Failure(constructError(Text("The request must be either POST or GET."),
                                           MODULE_ERROR, FALSE, <<>>)))
  /\ UNCHANGED <<settings, now, call, responses, Paginator>>

\* requestFunction runs on the transport's result
RequestResponse ==
  /\ pc = "waiting"
  /\ call.name = "_request"
  /\ \E resp \in InterpreterInputs :
       LET r == requestFunction(resp)
       IN /\ responses' = <<resp>>
          /\ Deliver([err |-> r.err, value |-> r.data])
  /\ UNCHANGED <<settings, now, call, Paginator>>

NextRequest ==
  \/ Request
  \/ RequestResponse

SpecRequest == InitRequest /\ [][NextRequest]_vars

(***************************************************************************)
(* The signing in _post, under concurrent use.  JavaScript runs each call  *)
(* of _post to completion, so any interleaving of public calls on one      *)
(* client builds its signed requests one after another, each reading the   *)
(* clock once; the clock may or may not have advanced in between.          *)
(* requests holds every signed request the client has built, oldest first. *)
(***************************************************************************)
\* new Date().getTime() * 10
Nonce(t) == t * 10

\* The HMAC-SHA256 of nonce + clientId + key under the secret, as what it
\* is computed from
Signature(nonce) == [message |-> <<nonce, "clientId", "key">>, secret |-> "secret"]

\* _.extend({key, signature, nonce}, params): the caller's params win
SignedParams(params, t) ==
  params @@ [key |-> "key", signature |-> Signature(Nonce(t)), nonce |-> Nonce(t)]

\* The calls of _post the public operations make: a balance request and a
\* page request of a listing
PostCalls == {PostRequest("balance", <<>>), PageRequest(0)}

InitPost ==
  /\ settings \in [key : BOOLEAN, secret : BOOLEAN, clientId : BOOLEAN]
  /\ now = 0
  /\ pc = "idle"
  /\ call = [name |-> "_post"]
  /\ history = 0
  /\ earliestDate = 0
  /\ transactionsAll = <<>>
  /\ offset = 0
  /\ continueIteration = FALSE
  /\ requests = <<>>
  /\ responses = <<>>
  /\ result = NoResult

\* _post: the credentials check, then the signed request
SignedPost ==
  /\ call.name = "_post"
  /\ Len(requests) < MaxSigned
  /\ \E req \in PostCalls :
       IF HasCredentials
         THEN /\ requests' = Append(requests,
                                    PostRequest(req.action, SignedParams(req.params, now)))
              /\ pc' = "waiting"
              /\ UNCHANGED result
         ELSE Deliver(Failure(MissingCredentials))
  /\ UNCHANGED <<settings, now, call, responses, Paginator>>

\* A millisecond passes
Tick ==
  /\ now < MaxClock
  /\ now' = now + 1
  /\ UNCHANGED <<settings, pc, call, requests, responses, result, Paginator>>

NextPost ==
  \/ SignedPost
  \/ Tick

SpecPost == InitPost /\ [][NextPost]_vars

(***************************************************************************)
(* Properties of the paginator.                                            *)
(***************************************************************************)
Listing == call.name \in {"listTransactions", "listTrades"}

StrictlyNewer(tx, date) == DateOf(tx.datetime) > date

\* The transactions of seq strictly newer than the boundary, in seq's order
NewerOf(seq, date) ==
  LET Newer(tx) == StrictlyNewer(tx, date) IN SelectSeq(seq, Newer)

Succeeded(resp) == requestFunction(resp).err.kind = "none"

\* C1: a listing that completes without error has accumulated every
\* transaction of the history strictly newer than the boundary exactly once,
\* in the exchange's descending order.
C1_ListingComplete ==
  (Listing /\ pc = "done" /\ result.err.kind = "none")
    => NewerOf(transactionsAll, earliestDate) = NewerOf(History(history), earliestDate)

\* C2: the boundary is an exclusive lower bound: in every state of a listing
\* the accumulator holds no transaction whose timestamp is equal to or older
\* than the boundary.
C2_BoundaryExclusive ==
  Listing => \A i \in 1..Len(transactionsAll) :
               StrictlyNewer(transactionsAll[i], earliestDate)

\* C3: when the request for a page fails, it is the last request of the
\* listing, and the caller's callback receives only the listing error that
\* wraps the cause, with none of the transactions accumulated before.
C3_FailureAbortsListing ==
  Listing =>
    \A i \in 1..Len(responses) :
      ~Succeeded(responses[i]) =>
        /\ i = Len(responses)
        /\ Len(requests) = i
        /\ pc = "done"
        /\ result.err.kind = "Error"
        /\ result.err.code = MODULE_ERROR
        /\ result.err.message = Text("Trades could not be listed.")
        /\ result.err.hasCause
        /\ result.err.cause = requestFunction(responses[i]).err
        /\ result.value = <<>>

\* C3 witness: the second page fails after a first page was accumulated.
C3_Witness ==
  /\ Listing
  /\ pc = "done"
  /\ Len(responses) = 2
  /\ Succeeded(responses[1])
  /\ ~Succeeded(responses[2])
  /\ transactionsAll # <<>>
  /\ result.err.kind = "Error"
  /\ result.value = <<>>

\* C4: once a page holds a transaction that is not strictly newer than the
\* boundary, no later page is requested, and the accumulator holds neither
\* that transaction nor any after it.
C4_EarlyExit ==
  Listing =>
    \A i \in 1..Len(responses) :
      Succeeded(responses[i]) =>
        LET page == responses[i].body.payload
        IN \A k \in 1..Len(page) :
             ~StrictlyNewer(page[k], earliestDate) =>
               /\ Len(requests) = i
               /\ \A j \in k..Len(page), m \in 1..Len(transactionsAll) :
                    transactionsAll[m] # page[j]

\* C5: a page of fewer than 100 transactions (an empty one included) is the
\* last one requested, and the listing completes successfully with the
\* accumulated transactions.
C5_ShortPageTerminates ==
  Listing =>
    \A i \in 1..Len(responses) :
      (Succeeded(responses[i])
         /\ Len(responses[i].body.payload) < BITSTAMP_REQUEST_LIMIT) =>
        /\ i = Len(responses)
        /\ Len(requests) = i
        /\ pc = "done"
        /\ result = ListingCallback(call.name, [err |-> NoErr, value |-> transactionsAll])

\* C5 witness: a first page that is short and not empty ends the listing after
\* one request, with every one of its transactions accumulated.
C5_Witness ==
  /\ Listing
  /\ pc = "done"
  /\ Len(requests) = 1
  /\ Len(responses) = 1
  /\ Succeeded(responses[1])
  /\ Len(responses[1].body.payload) \in 1..(BITSTAMP_REQUEST_LIMIT - 1)
  /\ transactionsAll = responses[1].body.payload
  /\ result.err.kind = "none"
  /\ result.value # <<>>

(***************************************************************************)
(* Properties of the operations that take a currency pair.                 *)
(***************************************************************************)
PairTaking == call.name \in {"getTicker", "getOrderBook", "placeTrade"}

\* The pair is BTC/USD in some spelling
SpelledBtcUsd(baseCurrency, quoteCurrency) ==
  /\ toLowerCase(baseCurrency) = <<"b", "t", "c">>
  /\ toLowerCase(quoteCurrency) = <<"u", "s", "d">>

ValidationErrorDelivered ==
  /\ pc = "done"
  /\ result.err.kind = "Error"
  /\ result.err.code = MODULE_ERROR
  /\ result.value = <<>>

\* C6: getTicker, getOrderBook and placeTrade called with a pair other than
\* BTC/USD (in any letter case) hand a validation error to the callback and
\* issue no HTTP request.
C6_UnsupportedPairRejected ==
  (PairTaking /\ ~SpelledBtcUsd(call.baseCurrency, call.quoteCurrency))
    => (requests = <<>> /\ ValidationErrorDelivered)

\* C6 witness: placeTrade with a valid amount and price and credentials, whose
\* base currency is BTC and whose quote currency is not USD.
C6_Witness ==
  /\ call.name = "placeTrade"
  /\ HasCredentials
  /\ call.baseAmount = JsNumber(1)
  /\ call.limitPrice = JsNumber(1)
  /\ toLowerCase(call.baseCurrency) = <<"b", "t", "c">>
  /\ toLowerCase(call.quoteCurrency) # <<"u", "s", "d">>
  /\ requests = <<>>
  /\ ValidationErrorDelivered

\* Zero, not a number, or missing
ZeroNonNumericOrMissing(v) ==
  v.t \in {"undefined", "string"} \/ (v.t = "number" /\ v.n = 0)

\* C7: placeTrade rejects a zero, non-numeric or missing base amount and a
\* zero, non-numeric or missing limit price with a validation error, and
\* issues no HTTP request.
C7_AmountAndPriceValidated ==
  (call.name = "placeTrade"
     /\ (ZeroNonNumericOrMissing(call.baseAmount) \/ ZeroNonNumericOrMissing(call.limitPrice)))
    => (requests = <<>> /\ ValidationErrorDelivered)

Accepted ==
  /\ call.name = "placeTrade"
  /\ placeTradeValidation(call.baseAmount, call.limitPrice,
                          call.baseCurrency, call.quoteCurrency).kind = "none"

Abs(n) == IF n < 0 THEN 0 - n ELSE n

\* Exactly one request, to the side the amount's sign selects, carrying the
\* amount's absolute value in main units and the limit price; a trade returned
\* keeps the signed amount and records the side that was sent
OneOrderSent ==
  /\ Len(requests) = 1
  /\ requests[1].method = "POST"
  /\ call.baseAmount.n < 0 => requests[1].action = "sell"
  /\ call.baseAmount.n > 0 => requests[1].action = "buy"
  /\ requests[1].params.amount.whole >= 0
  /\ requests[1].params.amount.frac \in 0..(SubunitsPerBTC - 1)
  /\ toSmallestSubunit(requests[1].params.amount, BTC) = Abs(call.baseAmount.n)
  /\ requests[1].params.price = call.limitPrice
  /\ (pc = "done" /\ result.err.kind = "none") =>
       /\ result.value.baseAmount = call.baseAmount
       /\ result.value.raw.orderType = requests[1].action

\* C8 as stated: for every base amount placeTrade accepts, exactly one request
\* is sent, to the sell endpoint for a negative and the buy endpoint for a
\* positive amount, with the absolute amount in main units and the limit
\* price; the trade returned keeps the signed amount and records the side.
C8_Original ==
  Accepted => OneOrderSent

\* C8 amended: the same, for a client that holds key, secret and client id;
\* a client that lacks one of them sends no request and hands the missing
\* credentials message to the callback.
C8_OrderSentBySign ==
  Accepted =>
    IF HasCredentials
      THEN OneOrderSent
      ELSE requests = <<>> /\ pc = "done" /\ result = Failure(MissingCredentials)

\* C8 witness: a sell of one and a half coins was placed and returned.
C8_Witness ==
  /\ Accepted
  /\ call.baseAmount = JsNumber(0 - 3 * (SubunitsPerBTC \div 2))
  /\ Len(requests) = 1
  /\ requests[1].action = "sell"
  /\ requests[1].params.amount = Decimal(1, SubunitsPerBTC \div 2)
  /\ pc = "done"
  /\ result.err.kind = "none"
  /\ result.value.raw.orderType = "sell"

(***************************************************************************)
(* Properties of getTrade.                                                 *)
(***************************************************************************)
RECURSIVE Total(_)
\* The sum of a list of numbers, taken from its end
Total(xs) ==
  IF Len(xs) = 0 THEN 0 ELSE Total(SubSeq(xs, 1, Len(xs) - 1)) + xs[Len(xs)]

OrderReturned == call.name = "getTrade" /\ pc = "done" /\ result.err.kind = "none"

FillsReturned == responses[1].body.payload.transactions

TotalBtc == Total([i \in 1..Len(FillsReturned) |-> toSmallestSubunit(FillsReturned[i].btc, BTC)])
TotalUsd == Total([i \in 1..Len(FillsReturned) |-> toSmallestSubunit(FillsReturned[i].usd, USD)])
TotalFee == Total([i \in 1..Len(FillsReturned) |-> toSmallestSubunit(FillsReturned[i].fee, USD)])

Sign(n) == IF n < 0 THEN -1 ELSE IF n > 0 THEN 1 ELSE 0

\* C9 as stated: the amounts of an order are the sums over its fills up to
\* sign; a sell has a negative baseAmount and the quoteAmount not negated, a
\* buy a negative quoteAmount and the baseAmount not negated, so the signs of
\* baseAmount and quoteAmount are always opposite.
C9_Original ==
  OrderReturned =>
    /\ Abs(result.value.baseAmount) = TotalBtc
    /\ Abs(result.value.quoteAmount) = TotalUsd
    /\ Abs(result.value.feeAmount) = TotalFee
    /\ call.trade.raw.orderType = TYPE_SELL_ORDER =>
         result.value.baseAmount < 0 /\ result.value.quoteAmount = TotalUsd
    /\ call.trade.raw.orderType = TYPE_BUY_ORDER =>
         result.value.quoteAmount < 0 /\ result.value.baseAmount = TotalBtc
    /\ Sign(result.value.baseAmount) # 0
    /\ Sign(result.value.baseAmount) = 0 - Sign(result.value.quoteAmount)

\* C9 amended: for fills with amounts that are not negative, a sell has
\* baseAmount = -(sum of btc) and quoteAmount = sum of usd, a buy has
\* baseAmount = sum of btc and quoteAmount = -(sum of usd), feeAmount is the
\* sum of the fees; baseAmount and quoteAmount never have the same sign, and
\* have opposite signs whenever both sums are positive (with no fills, or
\* fills of zero, an amount is zero and has no sign).
C9_FillsSummedAndSigned ==
  OrderReturned =>
    /\ result.value.feeAmount = TotalFee
    /\ call.trade.raw.orderType = TYPE_SELL_ORDER =>
         result.value.baseAmount = 0 - TotalBtc /\ result.value.quoteAmount = TotalUsd
    /\ call.trade.raw.orderType = TYPE_BUY_ORDER =>
         result.value.baseAmount = TotalBtc /\ result.value.quoteAmount = 0 - TotalUsd
    /\ ~(Sign(result.value.baseAmount) # 0
           /\ Sign(result.value.baseAmount) = Sign(result.value.quoteAmount))
    /\ (TotalBtc > 0 /\ TotalUsd > 0) =>
         /\ Sign(result.value.baseAmount) # 0
         /\ Sign(result.value.baseAmount) = 0 - Sign(result.value.quoteAmount)

\* C9 witness: a sell order with two fills that moved both currencies.
C9_Witness ==
  /\ OrderReturned
  /\ call.trade.raw.orderType = TYPE_SELL_ORDER
  /\ Len(FillsReturned) = 2
  /\ toSmallestSubunit(FillsReturned[1].btc, BTC) > 0
  /\ toSmallestSubunit(FillsReturned[2].btc, BTC) > 0
  /\ result.value.baseAmount < 0
  /\ result.value.quoteAmount > 0
  /\ result.value.feeAmount > 0

(***************************************************************************)
(* Properties of the response interpreter.                                 *)
(***************************************************************************)
Interpreted == call.name = "_request" /\ pc = "done" /\ Len(responses) = 1

MatchesBuy(m) == REGEX_PATTERN_BUY_ERROR_INSUFFICIENT_FUNDS(m)
MatchesSell(m) == REGEX_PATTERN_SELL_ERROR_INSUFFICIENT_FUNDS(m)

\* The classification the claim describes, for the error field e of the body
ErrorClassified(e) ==
  LET listed == IF e.t = "object" /\ e.hasAll THEN e.all ELSE <<>>
      someMatch == \E i \in 1..Len(listed) : MatchesBuy(listed[i]) \/ MatchesSell(listed[i])
  IN /\ result.err.kind = "Error"
     /\ result.value = <<>>
     /\ someMatch =>
          /\ result.err.code = INSUFFICIENT_FUNDS
          /\ \E i \in 1..Len(listed) : result.err.message = listed[i]
          /\ MatchesBuy(result.err.message) \/ MatchesSell(result.err.message)
          /\ (\E i \in 1..Len(listed) : MatchesBuy(listed[i])) => MatchesBuy(result.err.message)
     /\ ~someMatch =>
          /\ result.err.code = EXCHANGE_SERVER_ERROR
          /\ result.err.message =
               Text("There is an error in the body of the response from the exchange service...")

\* C10 as stated: a response without transport error whose parseable body
\* contains an error field is never reported as success; it is an
\* insufficient-funds error carrying a listed message verbatim exactly when a
\* message of error.__all__ matches a pattern (the buy side first), and a
\* generic server error otherwise.
C10_Original ==
  (Interpreted
     /\ ~responses[1].err /\ ~responses[1].resError
     /\ responses[1].body.kind = "json"
     /\ responses[1].body.error.t # "absent")
    => ErrorClassified(responses[1].body.error)

\* C10 amended: the same for a body whose error field is truthy (an object or
\* a non-empty string); a body whose error field is null or the empty string
\* is reported as success.
C10_ErrorBodyClassified ==
  (Interpreted
     /\ ~responses[1].err /\ ~responses[1].resError
     /\ responses[1].body.kind = "json")
    => IF Truthy(responses[1].body.error)
         THEN ErrorClassified(responses[1].body.error)
         ELSE result.err.kind = "none" /\ result.value = responses[1].body

\* C10 witness: a sell-side message listed before a buy-side message; the
\* error carries the buy-side message.
C10_Witness ==
  /\ Interpreted
  /\ ~responses[1].err /\ ~responses[1].resError
  /\ responses[1].body.kind = "json"
  /\ responses[1].body.error = ErrObject(TRUE, <<SellFundsMessage, BuyFundsMessage>>)
  /\ result.err.code = INSUFFICIENT_FUNDS
  /\ result.err.message = BuyFundsMessage

(***************************************************************************)
(* Errors delivered to callers.                                            *)
(***************************************************************************)
Delivered == pc = "done" /\ result.err.kind # "none"

\* C11: every error delivered to the callback of a public operation, on
\* every failure path, is an Error carrying one of the three error codes and
\* a message; a balance request by a client without key, secret or client
\* id is one such path.
C11_DeliveredErrorsCoded ==
  Delivered =>
    /\ result.err.kind = "Error"
    /\ result.err.code \in {EXCHANGE_SERVER_ERROR, MODULE_ERROR, INSUFFICIENT_FUNDS}
    /\ result.err.message # <<>>

\* C13: in a listing the k-th page request sent (k = 0, 1, 2, ...) asks for
\* 100 records, newest first, at offset 100 * k: the offset advances by
\* exactly the page size.
C13_OffsetAdvancesByPage ==
  Listing =>
    \A i \in 1..Len(requests) :
      /\ requests[i].action = "user_transactions"
      /\ requests[i].params.limit = 100
      /\ requests[i].params.sort = "desc"
      /\ requests[i].params.offset = 100 * (i - 1)

\* C12: of any two signed requests one client builds, the later carries the
\* strictly larger nonce, however the public calls interleave and also when
\* both requests are built within the same millisecond.
C12_NonceStrictlyIncreasing ==
  call.name = "_post" =>
    \A i, j \in 1..Len(requests) :
      i < j => requests[i].params.nonce < requests[j].params.nonce

(***************************************************************************)
(* Properties of listTrades.                                               *)
(***************************************************************************)
KnownFills == call.latest.raw.transactions

\* The timestamp of the newest of the known trade's fills
NewestFill ==
  CHOOSE d \in {KnownFills[i].datetime : i \in 1..Len(KnownFills)} :
    \A i \in 1..Len(KnownFills) : KnownFills[i].datetime <= d

\* C14: a listing of trades started from a latest known trade whose raw
\* record lists fills takes as its boundary the timestamp of the newest of
\* those fills, in whatever order they are listed; started without a latest
\* known trade it takes the epoch.
C14_BoundaryIsNewestFill ==
  (call.name = "listTrades" /\ requests # <<>>) =>
    /\ ~call.latest.given => earliestDate = 0
    /\ (call.latest.given /\ call.latest.raw.hasTransactions)
         => earliestDate = DateOf(NewestFill)

====
